---- MODULE Spec2Model ----
(***************************************************************************)
(* Jungle 404 planting ledger: the API request handler of                  *)
(* jungle404_server.js (the apiServer handler of jungle404_demo_server.js  *)
(* runs the same statements).  Two in-memory Maps, intents and orders, are *)
(* read and written by the POST /planting-intents, POST /confirm and       *)
(* GET /proofs routes.  Node runs every callback to completion, so each    *)
(* callback (the request handler, a 'data' listener, the 'end' listener, a *)
(* timer) is one atomic step; callbacks of different requests interleave.  *)
(***************************************************************************)
EXTENDS Integers, Sequences, FiniteSets, TLC

VARIABLES
    intents,    \* Map intentId -> {createdAt, confirmed, ip [, plantingId]}
    orders,     \* Map plantingId -> {plantingId, intentId, createdAt, confirmedAt, ip, coordinates}
    now,        \* the value Date.now() returns
    reqs,       \* the connections: a request being read, or the last response sent
    timers,     \* setTimeout callbacks scheduled and not yet run
    issued,     \* history: the <<intent id, order id>> pairs /confirm has answered with
    widget      \* the page of the widget: intentId, the button, the message, the fetch in flight

vars == <<intents, orders, now, reqs, timers, issued, widget>>

---------------------------------------------------------------------------
(* Bounds of the model *)

\* connections open at the same time
NReq == 2
\* distinct values crypto.randomBytes returns
IdEntropy == 2
\* the clock advances at most this many milliseconds
MaxTime == 1
\* no-op timers pending at the same time
MaxTimers == 1

Slots == 1..NReq
RemoteAddrs == {"127.0.0.1"}

---------------------------------------------------------------------------
(* JavaScript values *)

\* the value of a missing property
Undefined == "<undefined>"

\* o.f for a plain object o
Get(o, f) == IF f \in DOMAIN o THEN o[f] ELSE Undefined

\* the value null
Null == "<null>"

\* !v, for the strings, undefined and null
Falsy(v) == v = Undefined \/ v = Null \/ v = ""

---------------------------------------------------------------------------
(* generateId *)

HexDigit(d) ==
    CASE d = 0 -> "0" [] d = 1 -> "1" [] d = 2 -> "2" [] d = 3 -> "3"
      [] d = 4 -> "4" [] d = 5 -> "5" [] d = 6 -> "6" [] d = 7 -> "7"
      [] d = 8 -> "8" [] d = 9 -> "9" [] d = 10 -> "a" [] d = 11 -> "b"
      [] d = 12 -> "c" [] d = 13 -> "d" [] d = 14 -> "e" [] d = 15 -> "f"

\* crypto.randomBytes(n): n bytes; the model draws the last byte from
\* 0..IdEntropy-1 and leaves the others 0
randomBytes(n, k) == [j \in 1..n |-> IF j = n THEN k ELSE 0]

\* buf.toString('hex') as the sequence of its hex digits
toHexDigits(buf) ==
    [j \in 1..(2 * Len(buf)) |->
        LET b == buf[(j + 1) \div 2]
        IN  IF j % 2 = 1 THEN HexDigit(b \div 16) ELSE HexDigit(b % 16)]

RECURSIVE joinDigits(_)
joinDigits(ds) == IF ds = <<>> THEN "" ELSE Head(ds) \o joinDigits(Tail(ds))

\* str.slice(0, length)
sliceDigits(ds, length) == SubSeq(ds, 1, IF length < Len(ds) THEN length ELSE Len(ds))

\* generateId(length), k the random draw
generateId(length, k) ==
    joinDigits(sliceDigits(toHexDigits(randomBytes((length + 1) \div 2, k)), length))

RandomDraws == 0..(IdEntropy - 1)
\* generateId(12)
IntentIdLength == 12
\* generateId(10) asked for the length of an intent id
PlantingIdLengthOfIntent == IntentIdLength
\* generateId(10)
PlantingIdLength == 10
IntentIdSpace == {generateId(IntentIdLength, k) : k \in RandomDraws}
PlantingIdSpace == {generateId(PlantingIdLength, k) : k \in RandomDraws}

---------------------------------------------------------------------------
(* Request bodies.  A body is text; the model keeps it as the sequence of   *)
(* its JSON tokens, and a chunk of the body is a run of tokens.             *)

LBrace == <<"punct", "{">>
RBrace == <<"punct", "}">>
NullTok == <<"literal", "null">>
KeyTok(name) == <<"key", name>>
StrTok(s) == <<"string", s>>

\* JSON.stringify({ intent_id: v }), what the widget sends
ConfirmBody(v) == <<LBrace, KeyTok("intent_id"), StrTok(v), RBrace>>

\* JSON.parse(text): [threw, value]; a value is an object (its properties),
\* a string or null.  Anything else the clients of the model send is a
\* SyntaxError.
JSONparse(text) ==
    IF text = <<LBrace, RBrace>>
    THEN [threw |-> FALSE, value |-> [type |-> "object", props |-> <<>>]]
    ELSE IF /\ Len(text) = 4
            /\ text[1] = LBrace
            /\ text[2][1] = "key"
            /\ text[3][1] = "string"
            /\ text[4] = RBrace
    THEN [threw |-> FALSE,
          value |-> [type |-> "object", props |-> (text[2][2] :> text[3][2])]]
    ELSE IF text = <<NullTok>>
    THEN [threw |-> FALSE, value |-> [type |-> "null", props |-> <<>>]]
    ELSE IF Len(text) = 1 /\ text[1][1] = "string"
    THEN [threw |-> FALSE, value |-> [type |-> "string", props |-> <<>>]]
    ELSE [threw |-> TRUE, value |-> [type |-> "SyntaxError", props |-> <<>>]]

\* parseIntentId with JSON.parse(body) in place of JSON.parse(body || '{}')
parseIntentIdNoDefault(body) ==
    LET parsed == JSONparse(body)
    IN  IF parsed.threw
        THEN [threw |-> TRUE, intentId |-> Undefined]
        ELSE IF parsed.value.type = "null"
        THEN [threw |-> TRUE, intentId |-> Undefined]
        ELSE [threw |-> FALSE, intentId |-> Get(parsed.value.props, "intent_id")]

\* parseIntentId with a catch that swallows the error and goes on
parseIntentIdNoCatch(body) ==
    LET parsed == JSONparse(IF body = <<>> THEN <<LBrace, RBrace>> ELSE body)
    IN  IF parsed.threw \/ parsed.value.type = "null"
        THEN [threw |-> FALSE, intentId |-> Undefined]
        ELSE [threw |-> FALSE, intentId |-> Get(parsed.value.props, "intent_id")]

\* The try block of the 'end' listener: JSON.parse(body || '{}') and the
\* read of parsed.intent_id, which throws a TypeError on null.
parseIntentId(body) ==
    LET parsed == JSONparse(IF body = <<>> THEN <<LBrace, RBrace>> ELSE body)
    IN  IF parsed.threw
        THEN [threw |-> TRUE, intentId |-> Undefined]
        ELSE IF parsed.value.type = "null"
        THEN [threw |-> TRUE, intentId |-> Undefined]
        ELSE [threw |-> FALSE, intentId |-> Get(parsed.value.props, "intent_id")]

\* The bodies the clients of the model send to /confirm: the widget's body
\* for an id of the id space or the empty id, an empty body, {}, null, and a
\* body cut short
SentIds == IntentIdSpace \cup {""}
Payloads ==
    {ConfirmBody(v) : v \in SentIds}
        \cup {<<>>, <<LBrace, RBrace>>, <<NullTok>>, <<LBrace, KeyTok("intent_id")>>}

IsPrefix(s, t) == Len(s) <= Len(t) /\ s = SubSeq(t, 1, Len(s))

---------------------------------------------------------------------------
(* The request line.  req.url is kept as the segments of its path and the   *)
(* key=value pairs of its query string.                                     *)

Methods == {"GET", "POST", "OPTIONS"}

\* The urls the clients of the model ask for: the three routes and a path
\* with a dot segment, which is no route; no planting_id, one, the same twice
Paths == {<<"planting-intents">>, <<"confirm">>, <<"proofs">>, <<"static", "..", "proofs">>}
Queries ==
    {<<>>}
        \cup {<< <<"planting_id", q>> >> : q \in PlantingIdSpace \cup IntentIdSpace \cup {""}}
        \cup {<< <<"planting_id", q>>, <<"planting_id", q>> >> : q \in PlantingIdSpace}
Urls ==
    {[path |-> path, query |-> <<>>] : path \in Paths}
        \cup {[path |-> <<"proofs">>, query |-> query] : query \in Queries}

\* The request lines the clients of the model send: every method for every
\* path, and GET /proofs with every query
RequestLines ==
    {<<method, url>> \in Methods \X Urls : url.query = <<>> \/ method = "GET"}

RECURSIVE joinPath(_)
joinPath(segments) ==
    IF segments = <<>> THEN "" ELSE "/" \o Head(segments) \o joinPath(Tail(segments))

\* url.parse(req.url, true).pathname: the path as it was sent
pathnameOf(url) == IF url.path = <<>> THEN "/" ELSE joinPath(url.path)

\* the values of the pairs of a query string that have the key
valuesOf(query, key) ==
    LET hits == SelectSeq(query, LAMBDA kv : kv[1] = key)
    IN  [j \in 1..Len(hits) |-> hits[j][2]]

RECURSIVE joinValues(_)
joinValues(vs) ==
    IF vs = <<>> THEN ""
    ELSE IF Len(vs) = 1 THEN Head(vs)
    ELSE Head(vs) \o "," \o joinValues(Tail(vs))

\* a JavaScript array of strings: it is truthy and the key of no Map entry
ArrayOf(vs) == "[" \o joinValues(vs) \o "]"

\* url.parse(req.url, true).query[key]: undefined, the value, or the array
\* of the values of a key that is repeated
parsedUrlQuery(url, key) ==
    LET vs == valuesOf(url.query, key)
    IN  IF vs = <<>> THEN Undefined
        ELSE IF Len(vs) = 1 THEN vs[1]
        ELSE ArrayOf(vs)

\* The planting_id values GET /proofs reads from the urls of the model
QueryIds == {parsedUrlQuery(url, "planting_id") : url \in Urls}

\* HandlerBranches with the test for OPTIONS made last
HandlerBranchesOptionsLast == <<"/planting-intents", "/confirm", "/proofs", "*", "OPTIONS">>

\* The tests of the request handler, in the order it makes them
HandlerBranches == <<"OPTIONS", "/planting-intents", "/confirm", "/proofs", "*">>

matches(branch, method, pathname) ==
    CASE branch = "OPTIONS" -> method = "OPTIONS"
      [] branch = "/planting-intents" -> pathname = "/planting-intents" /\ method = "POST"
      [] branch = "/confirm" -> pathname = "/confirm" /\ method = "POST"
      [] branch = "/proofs" -> pathname = "/proofs" /\ method = "GET"
      [] branch = "*" -> TRUE

\* taken for branches that do not return: every branch whose test holds
takenNoReturn(method, pathname) ==
    SelectSeq(HandlerBranches, LAMBDA b : matches(b, method, pathname))

\* The branches a request runs: the first whose test holds, since every
\* branch ends with return
taken(method, pathname) ==
    <<Head(SelectSeq(HandlerBranches, LAMBDA b : matches(b, method, pathname)))>>

route(method, pathname) == Head(taken(method, pathname))

\* The res.end() calls made by the time the handler returns: one in every
\* branch but /confirm's, which leaves it to the 'end' listener
ended(method, pathname) ==
    Len(SelectSeq(taken(method, pathname), LAMBDA b : b # "/confirm"))

---------------------------------------------------------------------------
(* Maps *)

MapHas(m, k) == k \in DOMAIN m
MapSet(m, k, v) == [x \in (DOMAIN m) \cup {k} |-> IF x = k THEN v ELSE m[x]]

---------------------------------------------------------------------------
(* Clock, Math.random and the certificate *)

StartTime == 0

Pad2(n) == IF n < 10 THEN "0" \o ToString(n) ELSE ToString(n)
Pad3(n) == IF n < 10 THEN "00" \o ToString(n)
           ELSE IF n < 100 THEN "0" \o ToString(n) ELSE ToString(n)

\* new Date(t).toISOString(), for a time t of the first day of the epoch
toISOString(t) ==
    "1970-01-01T" \o Pad2(t \div 3600000) \o ":" \o Pad2((t \div 60000) % 60)
        \o ":" \o Pad2((t \div 1000) % 60) \o "." \o Pad3(t % 1000) \o "Z"

\* Math.random() in millionths: the ends and the middle of [0, 1)
RandomValues == {0, 500000, 999999}
\* the one value it returns where the coordinates are not looked at
MidRandom == {500000}

\* Coordinates in units of 1e-7 degree: base + (Math.random() - 0.5) * 0.1
BaseLat == -34653050
BaseLon == -732419970
\* Jitter with the factor 0.2 in place of 0.1
JitterDoubled(u) == 2 * (u - 500000)
\* (Math.random() - 0.5) * 0.1
Jitter(u) == u - 500000
Coordinates(u, v) == <<BaseLat + Jitter(u), BaseLon + Jitter(v)>>

generateCertificate(order) ==
    [planting_id |-> order.plantingId,
     intent_id   |-> order.intentId,
     project     |-> "Amazonia Peruana",
     planted_at  |-> toISOString(order.confirmedAt),
     coordinates |-> order.coordinates,
     message     |-> "Gracias por plantar un arbol en la Amazonia peruana!"]

---------------------------------------------------------------------------
(* Connections *)

NoResponse == [status |-> 0, data |-> <<>>]

\* sendJson(res, statusCode, data)
sendJson(statusCode, data) == [status |-> statusCode, data |-> data]

\* res.statusCode = statusCode; res.end()
endEmpty(statusCode) == [status |-> statusCode, data |-> <<>>]

\* A connection: the request on it (its method and pathname, the branch of
\* the handler it took, the planting_id of its query, the peer's address,
\* the body read so far), the response sent and the number of res.end() calls
Idle == [st |-> "idle", method |-> "", pathname |-> "", route |-> "", query |-> Undefined,
         ip |-> "", body |-> <<>>, res |-> NoResponse, ends |-> 0]

\* a connection whose request was answered in the step that received it
Answered(method, pathname, query, ip, res) ==
    [st |-> "answered", method |-> method, pathname |-> pathname,
     route |-> route(method, pathname), query |-> query, ip |-> ip, body |-> <<>>,
     res |-> res, ends |-> ended(method, pathname)]

\* a connection whose request handler has returned and left the answer to
\* the 'end' listener
Reading(method, pathname, ip) ==
    [st |-> "reading", method |-> method, pathname |-> pathname,
     route |-> route(method, pathname), query |-> Undefined, ip |-> ip, body |-> <<>>,
     res |-> NoResponse, ends |-> ended(method, pathname)]

\* a new request can arrive on a connection that is not reading a body
Free(r) == reqs[r].st # "reading"

\* The page before it is loaded: let intentId = null, the button enabled, no
\* message, no fetch in flight
NoPage == [intentId |-> Null, disabled |-> FALSE, message |-> <<>>, fetching |-> "unloaded",
           plantingId |-> Undefined]

Init ==
    /\ widget = NoPage
    /\ intents = <<>>
    /\ orders = <<>>
    /\ now = StartTime
    /\ reqs = [r \in Slots |-> Idle]
    /\ timers = 0
    /\ issued = {}

---------------------------------------------------------------------------
(* POST /planting-intents *)

NewIntent(ip) == [createdAt |-> now, confirmed |-> FALSE, ip |-> ip]

CreateIntent(r, ip, k) ==
    LET intentId == generateId(IntentIdLength, k)
    IN  /\ Free(r)
        /\ intents' = MapSet(intents, intentId, NewIntent(ip))
        /\ reqs' = [reqs EXCEPT ![r] =
                Answered("POST", "/planting-intents", Undefined, ip,
                         sendJson(200, [intent_id |-> intentId]))]
        /\ UNCHANGED <<orders, now, timers, issued, widget>>

---------------------------------------------------------------------------
(* POST /confirm *)

\* The request handler: body = '' and the two listeners are registered
ConfirmStart(r, ip) ==
    /\ Free(r)
    /\ reqs' = [reqs EXCEPT ![r] = Reading("POST", "/confirm", ip)]
    /\ UNCHANGED <<intents, orders, now, timers, issued, widget>>

\* req.on('data'): body += chunk
ConfirmData(r, chunk) ==
    /\ reqs[r].st = "reading"
    /\ reqs' = [reqs EXCEPT ![r].body = @ \o chunk]
    /\ UNCHANGED <<intents, orders, now, timers, issued, widget>>

\* ConfirmedIntent without the line intent.confirmed = true
ConfirmedIntentFlagUnset(intent, plantingId) ==
    [createdAt |-> intent.createdAt, confirmed |-> FALSE, ip |-> intent.ip,
     plantingId |-> plantingId]

\* ConfirmedIntent without the line intent.plantingId = plantingId
ConfirmedIntentIdUnset(intent, plantingId) ==
    [createdAt |-> intent.createdAt, confirmed |-> TRUE, ip |-> intent.ip,
     plantingId |-> Undefined]

\* intent.confirmed = true; intent.plantingId = plantingId
ConfirmedIntent(intent, plantingId) ==
    [createdAt |-> intent.createdAt, confirmed |-> TRUE, ip |-> intent.ip,
     plantingId |-> plantingId]

NewOrder(plantingId, intentId, intent, ip, u, v) ==
    [plantingId  |-> plantingId,
     intentId    |-> intentId,
     createdAt   |-> intent.createdAt,
     confirmedAt |-> now,
     ip          |-> ip,
     coordinates |-> Coordinates(u, v)]

\* IntentNotFound without the intents.has test
IntentNotFoundNoHas(intentId) == Falsy(intentId)

\* if (!intentId || !intents.has(intentId))
IntentNotFound(intentId) == Falsy(intentId) \/ ~MapHas(intents, intentId)

\* What the 'end' listener does with the body it has read, on a connection
\* from ip, drawing k from crypto.randomBytes and u, v from Math.random:
\* the Maps it leaves, the response it sends, the timers it schedules, and
\* whether it threw (intents.get or orders.get returned undefined and a
\* property of it was read).
onEnd(body, ip, k, u, v) ==
    LET p == parseIntentId(body)
        intentId == p.intentId
        same == [intents |-> intents, orders |-> orders, timers |-> 0]
    IN  IF p.threw
        THEN same @@ [threw |-> FALSE, res |-> sendJson(400, [error |-> "Invalid JSON"])]
        ELSE IF IntentNotFound(intentId)
        THEN same @@ [threw |-> FALSE, res |-> sendJson(404, [error |-> "Intent not found"])]
        ELSE IF ~MapHas(intents, intentId)
        THEN same @@ [threw |-> TRUE, res |-> NoResponse]
        ELSE LET intent == intents[intentId]
             IN  IF intent.confirmed
                 THEN IF MapHas(orders, Get(intent, "plantingId"))
                      THEN same @@
                            [threw |-> FALSE,
                             res |-> sendJson(200,
                                [planting_id |-> orders[intent.plantingId].plantingId])]
                      ELSE same @@ [threw |-> TRUE, res |-> NoResponse]
                 ELSE LET plantingId == generateId(PlantingIdLength, k)
                      IN  [intents |-> MapSet(intents, intentId,
                                              ConfirmedIntent(intent, plantingId)),
                           orders  |-> MapSet(orders, plantingId,
                                              NewOrder(plantingId, intentId, intent, ip, u, v)),
                           timers  |-> 1,
                           threw   |-> FALSE,
                           res     |-> sendJson(200, [planting_id |-> plantingId])]

\* req.on('end').  issued gains the pair the response answers with.
ConfirmEnd(r, k, u, v) ==
    LET out == onEnd(reqs[r].body, reqs[r].ip, k, u, v)
    IN  /\ reqs[r].st = "reading"
        /\ timers + out.timers <= MaxTimers
        /\ intents' = out.intents
        /\ orders' = out.orders
        /\ timers' = timers + out.timers
        /\ reqs' = [reqs EXCEPT ![r].st = IF out.threw THEN "threw" ELSE "answered",
                                ![r].res = out.res,
                                ![r].ends = @ + (IF out.threw THEN 0 ELSE 1)]
        /\ issued' = IF out.res.status = 200
                     THEN issued \cup {<<parseIntentId(reqs[r].body).intentId,
                                         out.res.data.planting_id>>}
                     ELSE issued
        /\ UNCHANGED <<now, widget>>

\* a setTimeout callback that stamps the orders as processed
TimerFireStamps ==
    /\ timers > 0
    /\ timers' = timers - 1
    /\ orders' = [p \in DOMAIN orders |-> [orders[p] EXCEPT !.confirmedAt = now]]
    /\ UNCHANGED <<intents, now, reqs, issued, widget>>

\* the setTimeout callback: nothing to do
TimerFire ==
    /\ timers > 0
    /\ timers' = timers - 1
    /\ UNCHANGED <<intents, orders, now, reqs, issued, widget>>

---------------------------------------------------------------------------
(* GET /proofs *)

proofs(plantingId) ==
    IF Falsy(plantingId) \/ ~MapHas(orders, plantingId)
    THEN sendJson(404, [error |-> "Planting order not found"])
    ELSE sendJson(200, generateCertificate(orders[plantingId]))

\* GetProof that drops the order it has served
GetProofOnce(r, ip, plantingId) ==
    /\ Free(r)
    /\ reqs' = [reqs EXCEPT ![r] = Answered("GET", "/proofs", plantingId, ip, proofs(plantingId))]
    /\ orders' = [p \in DOMAIN orders \ {plantingId} |-> orders[p]]
    /\ UNCHANGED <<intents, now, timers, issued, widget>>

GetProof(r, ip, plantingId) ==
    /\ Free(r)
    /\ reqs' = [reqs EXCEPT ![r] = Answered("GET", "/proofs", plantingId, ip, proofs(plantingId))]
    /\ UNCHANGED <<intents, orders, now, timers, issued, widget>>

---------------------------------------------------------------------------
(* OPTIONS on any url, and the requests no route takes *)

Preflight(r, ip, method, url) ==
    /\ Free(r)
    /\ route(method, pathnameOf(url)) = "OPTIONS"
    /\ reqs' = [reqs EXCEPT ![r] =
            Answered(method, pathnameOf(url), Undefined, ip, endEmpty(204))]
    /\ UNCHANGED <<intents, orders, now, timers, issued, widget>>

Fallback(r, ip, method, url) ==
    /\ Free(r)
    /\ route(method, pathnameOf(url)) = "*"
    /\ reqs' = [reqs EXCEPT ![r] =
            Answered(method, pathnameOf(url), Undefined, ip,
                     sendJson(404, [error |-> "Not Found"]))]
    /\ UNCHANGED <<intents, orders, now, timers, issued, widget>>

---------------------------------------------------------------------------
(* The clock *)

Tick ==
    /\ now < StartTime + MaxTime
    /\ now' = now + 1
    /\ UNCHANGED <<intents, orders, reqs, timers, issued, widget>>

---------------------------------------------------------------------------
(* The clients.  A client sends one of Payloads to /confirm in chunks, each *)
(* chunk taking the body read so far to a longer prefix of its payload, and *)
(* ends the request once the payload is sent.                               *)

SendChunk(r, payload, n) ==
    /\ IsPrefix(reqs[r].body, payload)
    /\ n > Len(reqs[r].body)
    /\ ConfirmData(r, SubSeq(payload, Len(reqs[r].body) + 1, n))

SendEnd(r, k, u, v) ==
    /\ reqs[r].body \in Payloads
    /\ ConfirmEnd(r, k, u, v)

\* The requests on the connections S, Math.random drawing from R: a request
\* of any method for any url runs the branch of the handler that takes it
Requests(S, R) ==
    \/ \E r \in S, ip \in RemoteAddrs, line \in RequestLines :
            Preflight(r, ip, line[1], line[2])
    \/ \E r \in S, ip \in RemoteAddrs, line \in RequestLines, k \in RandomDraws :
            /\ route(line[1], pathnameOf(line[2])) = "/planting-intents"
            /\ CreateIntent(r, ip, k)
    \/ \E r \in S, ip \in RemoteAddrs, line \in RequestLines :
            /\ route(line[1], pathnameOf(line[2])) = "/confirm"
            /\ ConfirmStart(r, ip)
    \/ \E r \in S, payload \in Payloads : \E n \in 1..Len(payload) : SendChunk(r, payload, n)
    \/ \E r \in S, k \in RandomDraws, u, v \in R : SendEnd(r, k, u, v)
    \/ \E r \in S, ip \in RemoteAddrs, line \in RequestLines :
            /\ route(line[1], pathnameOf(line[2])) = "/proofs"
            /\ GetProof(r, ip, parsedUrlQuery(line[2], "planting_id"))
    \/ \E r \in S, ip \in RemoteAddrs, line \in RequestLines :
            Fallback(r, ip, line[1], line[2])

\* Requests one at a time on one connection, as the clock advances
Next == Requests({1}, MidRandom) \/ TimerFire \/ Tick

Spec == Init /\ [][Next]_vars

\* The event loop runs a timer that is due, and emits 'end' on a request
\* whose body has arrived
Fairness ==
    /\ WF_vars(TimerFire)
    /\ \A r \in Slots : WF_vars(\E k \in RandomDraws, u, v \in MidRandom : SendEnd(r, k, u, v))

\* Requests one at a time on one connection, within one millisecond
StillNext == Requests({1}, MidRandom) \/ TimerFire

SpecLive == Init /\ [][StillNext]_vars /\ Fairness

\* Requests on NReq connections at the same time, within one millisecond
NetNext == Requests(Slots, MidRandom) \/ TimerFire

SpecNet == Init /\ [][NetNext]_vars

\* POST requests on NReq connections at the same time, within one
\* millisecond: intents are created and confirmed, the 'data' and 'end'
\* callbacks of the connections and the timers running in every order
PostsNext ==
    \/ \E r \in Slots, ip \in RemoteAddrs, k \in RandomDraws : CreateIntent(r, ip, k)
    \/ \E r \in Slots, ip \in RemoteAddrs : ConfirmStart(r, ip)
    \/ \E r \in Slots, payload \in Payloads : \E n \in 1..Len(payload) : SendChunk(r, payload, n)
    \/ \E r \in Slots, k \in RandomDraws, u, v \in MidRandom : SendEnd(r, k, u, v)
    \/ TimerFire

SpecPosts == Init /\ [][PostsNext]_vars

---------------------------------------------------------------------------
(* NReq /confirm requests in flight for one fresh intent: the requests'     *)
(* 'data' and 'end' callbacks, and the timers, in every order.  The ledger  *)
(* holds the fresh intent alone, or also a second intent already confirmed. *)

ConcIntent == generateId(IntentIdLength, 0)
ConcBody == ConfirmBody(ConcIntent)

ConcInit ==
    \E ip \in RemoteAddrs, other \in BOOLEAN, k \in RandomDraws, u \in MidRandom :
        LET j == generateId(IntentIdLength, IdEntropy - 1)
            q == generateId(PlantingIdLength, k)
            fresh == [createdAt |-> StartTime, confirmed |-> FALSE, ip |-> ip]
        IN  /\ now = StartTime
            /\ timers = 0
            /\ widget = NoPage
            /\ reqs = [r \in Slots |-> Reading("POST", "/confirm", ip)]
            /\ IF other /\ j # ConcIntent
               THEN /\ intents = (ConcIntent :> fresh) @@ (j :> ConfirmedIntent(fresh, q))
                    /\ orders = (q :> NewOrder(q, j, fresh, ip, u, u))
                    /\ issued = {<<j, q>>}
               ELSE /\ intents = (ConcIntent :> fresh)
                    /\ orders = <<>>
                    /\ issued = {}

ConcNext ==
    \/ \E r \in Slots : \E n \in 1..Len(ConcBody) : SendChunk(r, ConcBody, n)
    \/ \E r \in Slots, k \in RandomDraws, u, v \in MidRandom :
            reqs[r].body = ConcBody /\ ConfirmEnd(r, k, u, v)
    \/ TimerFire

SpecConc == ConcInit /\ [][ConcNext]_vars

\* The same requests, Math.random returning the ends and the middle of [0, 1)
CoordNext ==
    \/ \E r \in Slots : \E n \in 1..Len(ConcBody) : SendChunk(r, ConcBody, n)
    \/ \E r \in Slots, k \in RandomDraws, u, v \in RandomValues :
            reqs[r].body = ConcBody /\ ConfirmEnd(r, k, u, v)
    \/ TimerFire

SpecCoord == ConcInit /\ [][CoordNext]_vars

---------------------------------------------------------------------------
(* The widget of public/jungle404_snippet.js on a page, the one client of   *)
(* a server that can be restarted.  A fetch settles in one step: the server *)
(* handles the request and the then callbacks run, or the fetch is rejected *)
(* (the request or the response is lost) and the catch callback runs.       *)

ServerUnchanged == UNCHANGED <<intents, orders, now, reqs, timers, issued>>

\* encodeURIComponent(v), for undefined and the hex ids
encodeURIComponent(v) == IF v = Undefined THEN "undefined" ELSE v

\* new Date(v).toLocaleString(), the ISO string standing for the local one
toLocaleString(v) == IF v = Undefined THEN "Invalid Date" ELSE v

\* DOMContentLoaded: createWidget() and createIntent(), on a page load
DOMContentLoaded ==
    /\ widget' = [NoPage EXCEPT !.fetching = "/planting-intents"]
    /\ ServerUnchanged

\* createIntent: .then(resp => resp.json()).then(data => { intentId = data.intent_id })
createIntentResolved(ip, k) ==
    LET id == generateId(IntentIdLength, k)
        data == sendJson(200, [intent_id |-> id]).data
    IN  /\ widget.fetching = "/planting-intents"
        /\ intents' = MapSet(intents, id, NewIntent(ip))
        /\ widget' = [widget EXCEPT !.intentId = Get(data, "intent_id"),
                                    !.fetching = "none"]
        /\ UNCHANGED <<orders, now, reqs, timers, issued>>

\* createIntent: .catch(err => console.error(...)), the request served or lost
createIntentRejected(ip, k, served) ==
    /\ widget.fetching = "/planting-intents"
    /\ intents' = IF served
                  THEN MapSet(intents, generateId(IntentIdLength, k), NewIntent(ip))
                  ELSE intents
    /\ widget' = [widget EXCEPT !.fetching = "none"]
    /\ UNCHANGED <<orders, now, reqs, timers, issued>>

\* confirmPlanting, the click listener of the button, up to the fetch
confirmPlanting ==
    /\ widget.fetching \in {"none", "/planting-intents"}
    /\ ~widget.disabled
    /\ widget' = IF Falsy(widget.intentId)
                 THEN [widget EXCEPT !.message = <<"No se pudo inicializar la plantacion.">>]
                 ELSE [widget EXCEPT !.disabled = TRUE,
                                     !.message = <<"Plantando tu arbol...">>,
                                     !.fetching = "/confirm"]
    /\ ServerUnchanged

\* what the server does with the widget's POST /confirm
widgetConfirm(ip, k, u, v) == onEnd(ConfirmBody(widget.intentId), ip, k, u, v)

\* confirmPlanting: .then(resp => resp.json()).then(data => { ... })
confirmResolved(ip, k, u, v) ==
    LET out == widgetConfirm(ip, k, u, v)
        data == out.res.data
    IN  /\ widget.fetching = "/confirm"
        /\ ~out.threw
        /\ timers + out.timers <= MaxTimers
        /\ intents' = out.intents
        /\ orders' = out.orders
        /\ timers' = timers + out.timers
        /\ issued' = IF out.res.status = 200
                     THEN issued \cup {<<widget.intentId, data.planting_id>>}
                     ELSE issued
        /\ widget' = IF ~Falsy(Get(data, "error"))
                     THEN [widget EXCEPT !.message = <<"Ha ocurrido un error: ", data.error>>,
                                         !.disabled = FALSE,
                                         !.fetching = "none"]
                     ELSE [widget EXCEPT !.plantingId = Get(data, "planting_id"),
                                         !.fetching = "/proofs"]
        /\ UNCHANGED <<now, reqs>>

\* confirmPlanting: .catch(err => { ... }), the fetch of /confirm rejected
confirmRejected(ip, k, u, v, served) ==
    LET out == widgetConfirm(ip, k, u, v)
    IN  /\ widget.fetching = "/confirm"
        /\ ~out.threw
        /\ timers + out.timers <= MaxTimers
        /\ intents' = IF served THEN out.intents ELSE intents
        /\ orders' = IF served THEN out.orders ELSE orders
        /\ timers' = IF served THEN timers + out.timers ELSE timers
        /\ issued' = IF served /\ out.res.status = 200
                     THEN issued \cup {<<widget.intentId, out.res.data.planting_id>>}
                     ELSE issued
        /\ widget' = [widget EXCEPT
                        !.message = <<"Ha ocurrido un error al plantar tu arbol.">>,
                        !.fetching = "none"]
        /\ UNCHANGED <<now, reqs>>

\* the url of the widget's GET /proofs
proofsUrl ==
    [path |-> <<"proofs">>,
     query |-> << <<"planting_id", encodeURIComponent(widget.plantingId)>> >>]

\* confirmPlanting: .then(certResp => certResp.json()).then(certData => { ... })
proofsResolved ==
    LET certData == proofs(parsedUrlQuery(proofsUrl, "planting_id")).data
    IN  /\ widget.fetching = "/proofs"
        /\ widget' = [widget EXCEPT
                        !.message = <<"Gracias! Se planto un arbol con ID ",
                                      Get(certData, "planting_id"),
                                      Get(certData, "project"),
                                      toLocaleString(Get(certData, "planted_at"))>>,
                        !.fetching = "none"]
        /\ ServerUnchanged

\* confirmPlanting: .catch(err => { ... }), the fetch of /proofs rejected
proofsRejected ==
    /\ widget.fetching = "/proofs"
    /\ widget' = [widget EXCEPT
                    !.message = <<"Ha ocurrido un error al plantar tu arbol.">>,
                    !.fetching = "none"]
    /\ ServerUnchanged

\* the server process is started again: new Map(), new Map()
Restart ==
    /\ intents # <<>>
    /\ intents' = <<>>
    /\ orders' = <<>>
    /\ timers' = 0
    /\ issued' = {}
    /\ UNCHANGED <<now, reqs, widget>>

WidgetNext ==
    \/ DOMContentLoaded
    \/ \E ip \in RemoteAddrs, k \in RandomDraws : createIntentResolved(ip, k)
    \/ \E ip \in RemoteAddrs, k \in RandomDraws, served \in BOOLEAN :
            createIntentRejected(ip, k, served)
    \/ confirmPlanting
    \/ \E ip \in RemoteAddrs, k \in RandomDraws, u, v \in MidRandom :
            confirmResolved(ip, k, u, v)
    \/ \E ip \in RemoteAddrs, k \in RandomDraws, u, v \in MidRandom, served \in BOOLEAN :
            confirmRejected(ip, k, u, v, served)
    \/ proofsResolved
    \/ proofsRejected
    \/ TimerFire
    \/ Restart

SpecWidget == Init /\ [][WidgetNext]_vars

---------------------------------------------------------------------------
(* The request handler of apiServer in jungle404_demo_server.js, as what it *)
(* does to the Maps of the ledger and answers for one request.  It reads    *)
(* req.url with new URL(), where the handler above uses url.parse.          *)

\* The path of a WHATWG URL: a "." segment is dropped, a ".." segment drops
\* the segment before it
RECURSIVE removeDotSegments(_, _)
removeDotSegments(segments, out) ==
    IF segments = <<>> THEN out
    ELSE IF Head(segments) = ".."
    THEN removeDotSegments(Tail(segments),
                           IF out = <<>> THEN out ELSE SubSeq(out, 1, Len(out) - 1))
    ELSE IF Head(segments) = "."
    THEN removeDotSegments(Tail(segments), out)
    ELSE removeDotSegments(Tail(segments), Append(out, Head(segments)))

\* new URL(req.url, ...).pathname; a dot segment at the end leaves the
\* slash before it
urlObjPathname(url) ==
    LET kept == removeDotSegments(url.path, <<>>)
        last == IF url.path = <<>> THEN "" ELSE url.path[Len(url.path)]
    IN  IF kept = <<>> THEN "/"
        ELSE IF last \in {".", ".."} THEN joinPath(kept) \o "/"
        ELSE joinPath(kept)

\* urlObj.searchParams.get(key): the first value of the key, or null
searchParamsGet(query, key) ==
    LET vs == valuesOf(query, key)
    IN  IF vs = <<>> THEN Null ELSE vs[1]

\* The Maps apiServer leaves, the response it sends and whether it left the
\* answer to the 'end' listener, for a request from ip with k drawn from
\* crypto.randomBytes
apiServer(method, url, ip, k) ==
    LET pathname == urlObjPathname(url)
        same == [intents |-> intents, orders |-> orders, reading |-> FALSE]
    IN  IF method = "OPTIONS"
        THEN same @@ [res |-> endEmpty(204)]
        ELSE IF pathname = "/planting-intents" /\ method = "POST"
        THEN LET intentId == generateId(IntentIdLength, k)
             IN  [intents |-> MapSet(intents, intentId, NewIntent(ip)),
                  orders  |-> orders,
                  reading |-> FALSE,
                  res     |-> sendJson(200, [intent_id |-> intentId])]
        ELSE IF pathname = "/confirm" /\ method = "POST"
        THEN [intents |-> intents, orders |-> orders, reading |-> TRUE, res |-> NoResponse]
        ELSE IF pathname = "/proofs" /\ method = "GET"
        THEN LET plantingId == searchParamsGet(url.query, "planting_id")
             IN  IF Falsy(plantingId) \/ ~MapHas(orders, plantingId)
                 THEN same @@ [res |-> sendJson(404, [error |-> "Planting order not found"])]
                 ELSE same @@ [res |-> sendJson(200, generateCertificate(orders[plantingId]))]
        ELSE same @@ [res |-> sendJson(404, [error |-> "Not Found"])]

---------------------------------------------------------------------------
(* The claims *)

OrdersOf(i) == {p \in DOMAIN orders : orders[p].intentId = i}
IssuedFor(i) == {pr[2] : pr \in {x \in issued : x[1] = i}}
IssuedIds == {pr[2] : pr \in issued}

\* connection r's 'end' listener runs in this step; a request on connection
\* r is answered in the step that receives it when reqs'[r] # reqs[r] and its
\* route is not /confirm
Ends(r) == reqs[r].st = "reading" /\ reqs'[r].st # "reading"

\* C1: a /confirm for an intent that is already confirmed answers with the
\* order id every earlier confirmation of that intent id answered with (so
\* with the first one's), leaves intents and orders as they were, and
\* exactly one order of that intent exists afterwards.
C1_ConfirmIdempotent ==
    [][\A r \in Slots :
        LET i == parseIntentId(reqs[r].body).intentId
        IN  (Ends(r) /\ MapHas(intents, i) /\ intents[i].confirmed)
                => /\ reqs'[r].res.status = 200
                   /\ IssuedFor(i) = {reqs'[r].res.data.planting_id}
                   /\ intents' = intents
                   /\ orders' = orders
                   /\ Cardinality({p \in DOMAIN orders' : orders'[p].intentId = i}) = 1]_vars

\* C2: with NReq /confirm requests in flight for one fresh intent, at most
\* one order of that intent exists and one order id is issued for it, none
\* of the listeners throws, and every request answered so far was answered
\* 200 with the id of that one order.
C2_ConcurrentConfirmOneOrder ==
    /\ Cardinality(OrdersOf(ConcIntent)) <= 1
    /\ Cardinality(IssuedFor(ConcIntent)) <= 1
    /\ \A r \in Slots :
        /\ reqs[r].st # "threw"
        /\ reqs[r].st = "answered"
            => /\ reqs[r].res.status = 200
               /\ OrdersOf(ConcIntent) = {reqs[r].res.data.planting_id}
               /\ IssuedFor(ConcIntent) = {reqs[r].res.data.planting_id}
               /\ intents[ConcIntent].confirmed
               /\ intents[ConcIntent].plantingId = reqs[r].res.data.planting_id

\* all NReq >= 2 concurrent requests are answered
C2_Witness ==
    /\ NReq >= 2
    /\ \A r \in Slots : reqs[r].st = "answered" /\ reqs[r].res.status = 200

\* C3: every order's intentId is the id of a stored intent whose plantingId
\* is this order's id, and no other intent records this order's id.
C3_OrderIntentOneToOne ==
    \A p \in DOMAIN orders :
        /\ orders[p].plantingId = p
        /\ MapHas(intents, orders[p].intentId)
        /\ Get(intents[orders[p].intentId], "plantingId") = p
        /\ \A i \in DOMAIN intents :
            Get(intents[i], "plantingId") = p => i = orders[p].intentId

\* C4: the intent stored under every order's intentId is confirmed.
C4_OrderHasConfirmedIntent ==
    \A p \in DOMAIN orders :
        /\ MapHas(intents, orders[p].intentId)
        /\ intents[orders[p].intentId].confirmed

\* C5: the id POST /planting-intents generates is the id of no stored intent,
\* and the id a first-time /confirm generates is the id of no stored order
\* and of no stored intent: no set() overwrites a record.
C5_IdsNeverCollide ==
    [][/\ \A r \in Slots, ip \in RemoteAddrs, k \in RandomDraws :
            CreateIntent(r, ip, k) => ~MapHas(intents, generateId(IntentIdLength, k))
       /\ \A r \in Slots, k \in RandomDraws, u \in MidRandom :
            (ConfirmEnd(r, k, u, u) /\ onEnd(reqs[r].body, reqs[r].ip, k, u, u).timers = 1)
                => /\ ~MapHas(orders, generateId(PlantingIdLength, k))
                   /\ ~MapHas(intents, generateId(PlantingIdLength, k))]_vars

\* C6: an intent that is confirmed stays stored and confirmed, and a
\* plantingId once set keeps its value.
C6_IntentOneWay ==
    [][\A i \in DOMAIN intents :
        /\ intents[i].confirmed => (MapHas(intents', i) /\ intents'[i].confirmed)
        /\ "plantingId" \in DOMAIN intents[i]
            => (MapHas(intents', i)
                /\ Get(intents'[i], "plantingId") = intents[i].plantingId)]_vars

\* C7: a /confirm whose body parses to an intent_id that is no key of
\* intents is answered 404 'Intent not found' and leaves intents and
\* orders as they were.
C7_ConfirmUnknownNotFound ==
    [][\A r \in Slots :
        LET parsed == JSONparse(reqs[r].body)
        IN  (/\ Ends(r)
             /\ ~parsed.threw
             /\ parsed.value.type = "object"
             /\ ~MapHas(intents, Get(parsed.value.props, "intent_id")))
                => /\ reqs'[r].st = "answered"
                   /\ reqs'[r].res = [status |-> 404,
                                      data |-> [error |-> "Intent not found"]]
                   /\ intents' = intents
                   /\ orders' = orders]_vars

\* a request for an intent id that is not stored, while another intent and
\* an order are, has been answered 404
C7_Witness ==
    \E r \in Slots :
        /\ reqs[r].st = "answered"
        /\ reqs[r].route = "/confirm"
        /\ reqs[r].body \in {ConfirmBody(i) : i \in IntentIdSpace \ DOMAIN intents}
        /\ reqs[r].res.status = 404
        /\ DOMAIN intents # {}
        /\ DOMAIN orders # {}

\* C8: a GET /proofs whose planting_id is no key of orders is answered 404
\* 'Planting order not found'; so is one whose planting_id is the id of a
\* stored intent that is not confirmed, or an id no /confirm has issued.
C8_ProofUnknownNotFound ==
    [][\A r \in Slots :
        LET q == reqs'[r].query
        IN  (/\ reqs'[r] # reqs[r]
             /\ reqs'[r].route = "/proofs"
             /\ \/ ~MapHas(orders, q)
                \/ q \notin IssuedIds
                \/ MapHas(intents, q) /\ ~intents[q].confirmed)
                => /\ reqs'[r].st = "answered"
                   /\ reqs'[r].res = [status |-> 404,
                                      data |-> [error |-> "Planting order not found"]]]_vars

\* a proof was asked with the id of a stored, unconfirmed intent, while
\* orders exist, and was answered 404
C8_Witness ==
    \E r \in Slots :
        /\ reqs[r].st = "answered"
        /\ reqs[r].route = "/proofs"
        /\ MapHas(intents, reqs[r].query)
        /\ ~intents[reqs[r].query].confirmed
        /\ reqs[r].res.status = 404
        /\ DOMAIN orders # {}

\* C9: a /confirm whose body JSON.parse rejects is answered 400 'Invalid
\* JSON' and leaves intents and orders as they were.
C9_MalformedIsInvalidInput ==
    [][\A r \in Slots :
        (Ends(r) /\ reqs[r].body # <<>> /\ JSONparse(reqs[r].body).threw)
            => /\ reqs'[r].st = "answered"
               /\ reqs'[r].res = [status |-> 400, data |-> [error |-> "Invalid JSON"]]
               /\ intents' = intents
               /\ orders' = orders]_vars

\* a body cut short was answered 400 while intents and orders are stored
C9_Witness ==
    \E r \in Slots :
        /\ reqs[r].st = "answered"
        /\ reqs[r].route = "/confirm"
        /\ reqs[r].body = <<LBrace, KeyTok("intent_id")>>
        /\ reqs[r].res.status = 400
        /\ \E i \in DOMAIN intents : ~intents[i].confirmed
        /\ DOMAIN orders # {}

\* C10: for every <<i, p>> a /confirm has answered with, GET /proofs of p
\* succeeds with planting_id p and intent_id i, and intent i is stored and
\* confirmed.
C10_IssuedProofRefersBack ==
    \A pr \in issued :
        /\ proofs(pr[2]).status = 200
        /\ proofs(pr[2]).data.planting_id = pr[2]
        /\ proofs(pr[2]).data.intent_id = pr[1]
        /\ MapHas(intents, pr[1])
        /\ intents[pr[1]].confirmed

\* C11: the certificate GET /proofs answers with for a stored order is the
\* same after every step (a request, a timer, a tick of the clock), so two
\* GET /proofs of one planting_id answer alike whatever runs in between.
C11_ProofRepeatable ==
    [][\A p \in DOMAIN orders : (proofs(p))' = proofs(p)]_vars

\* C12: a GET /proofs, answered 200 or 404, leaves intents and orders as
\* they were.
C12_ProofPureRead ==
    [][\A r \in Slots :
        (reqs'[r] # reqs[r] /\ reqs'[r].route = "/proofs")
            => (intents' = intents /\ orders' = orders)]_vars

\* a proof was served for a stored order
C12_Witness ==
    \E r \in Slots :
        /\ reqs[r].st = "answered"
        /\ reqs[r].route = "/proofs"
        /\ reqs[r].res.status = 200
        /\ MapHas(orders, reqs[r].query)

\* C13: the 'end' listener that schedules the timer answers 200 with the
\* id of the order it stored in that same step, the timer still pending; the
\* step in which a timer fires changes neither Map nor any connection, and
\* what GET /proofs answers, and what /confirm answers for an intent that is
\* confirmed (the order id) or for a body it refuses, is the same before
\* and after it.
C13_TimerFireAndForget ==
    [][IF timers' > timers
       THEN \A r \in Slots :
                Ends(r)
                    => /\ reqs'[r].st = "answered"
                       /\ reqs'[r].res.status = 200
                       /\ MapHas(orders', reqs'[r].res.data.planting_id)
                       /\ orders'[reqs'[r].res.data.planting_id].intentId
                            = parseIntentId(reqs[r].body).intentId
       ELSE IF timers' < timers
       THEN /\ intents' = intents
            /\ orders' = orders
            /\ reqs' = reqs
            /\ \A q \in QueryIds : (proofs(q))' = proofs(q)
            /\ \A body \in Payloads, ip \in RemoteAddrs, k \in RandomDraws,
                  u \in MidRandom :
                    onEnd(body, ip, k, u, u).timers = 0
                        => (onEnd(body, ip, k, u, u))' = onEnd(body, ip, k, u, u)
       ELSE TRUE]_vars

\* /confirm has answered with an order id while its timer is still pending
C13_Witness ==
    /\ timers > 0
    /\ \E r \in Slots :
        /\ reqs[r].st = "answered"
        /\ reqs[r].route = "/confirm"
        /\ reqs[r].res.status = 200
        /\ MapHas(orders, reqs[r].res.data.planting_id)

\* a body of Payloads no longer body of Payloads continues
Complete(body) ==
    body \in Payloads /\ \A payload \in Payloads : IsPrefix(body, payload) => payload = body

\* C14: a request for /planting-intents, /proofs or any other url but POST
\* /confirm is answered in the step that receives it, a POST /confirm in the
\* step of its 'end' listener, which never throws; a response is ended once
\* when the request is answered and not before; and a POST /confirm whose
\* whole body has arrived is eventually answered.
C14_AnsweredOnce ==
    /\ [](\A r \in Slots :
            /\ reqs[r].st # "threw"
            /\ reqs[r].st = "answered" => (reqs[r].ends = 1 /\ reqs[r].res # NoResponse)
            /\ reqs[r].st = "reading" => (reqs[r].ends = 0 /\ reqs[r].res = NoResponse))
    /\ [][\A r \in Slots :
            /\ (reqs'[r] # reqs[r] /\ reqs[r].st # "reading")
                => (reqs'[r].st = "answered" \/ reqs'[r].route = "/confirm")
            /\ Ends(r) => reqs'[r].st = "answered"]_vars
    /\ \A r \in Slots :
            (reqs[r].st = "reading" /\ Complete(reqs[r].body))
                ~> (reqs[r].st = "answered")

\* a POST /confirm whose whole body had arrived has been answered, once
C14_Witness ==
    \E r \in Slots :
        /\ reqs[r].st = "answered"
        /\ reqs[r].route = "/confirm"
        /\ Complete(reqs[r].body)
        /\ reqs[r].ends = 1

\* C15: an OPTIONS request for any url runs the OPTIONS branch of the
\* handler and no other, is answered 204 without a body in the step that
\* receives it, and leaves intents and orders as they were.
C15_PreflightSucceeds ==
    [][\A r \in Slots :
        (reqs'[r] # reqs[r] /\ reqs'[r].method = "OPTIONS")
            => /\ taken("OPTIONS", reqs'[r].pathname) = <<"OPTIONS">>
               /\ reqs'[r].st = "answered"
               /\ reqs'[r].res = [status |-> 204, data |-> <<>>]
               /\ intents' = intents
               /\ orders' = orders]_vars

\* OPTIONS /confirm was answered 204 while an intent waits to be confirmed
C15_Witness ==
    \E r \in Slots :
        /\ reqs[r].st = "answered"
        /\ reqs[r].method = "OPTIONS"
        /\ reqs[r].pathname = "/confirm"
        /\ reqs[r].res.status = 204
        /\ \E i \in DOMAIN intents : ~intents[i].confirmed

\* C16: when no fetch of the widget is in flight and the button is disabled,
\* the attempt has ended in success: the message thanks for the tree and
\* names its planting id.  An attempt that ended in an error leaves the
\* button enabled.
C16_WidgetRecovers ==
    (widget.fetching = "none" /\ widget.disabled)
        => /\ Len(widget.message) = 4
           /\ widget.message[1] = "Gracias! Se planto un arbol con ID "
           /\ widget.message[2] \in PlantingIdSpace

\* |x|
Abs(x) == IF x < 0 THEN -x ELSE x

\* C17: the latitude of every stored order is within 0.05 degree of
\* -3.465305 and its longitude within 0.05 degree of -73.241997 (500000
\* units of 1e-7 degree), whatever Math.random returned.
C17_CoordinatesInRange ==
    \A p \in DOMAIN orders :
        /\ Abs(orders[p].coordinates[1] - BaseLat) <= 500000
        /\ Abs(orders[p].coordinates[2] - BaseLon) <= 500000

\* an order was created with Math.random returning 0 and then 0.999999
C17_Witness ==
    \E p \in DOMAIN orders :
        orders[p].coordinates = <<BaseLat - 500000, BaseLon + 499999>>

\* C18: a /confirm whose body is empty, or is JSON whose intent_id can be
\* read and is missing, empty or no key of intents, is answered 404 'Intent
\* not found' and leaves intents and orders as they were; of the bodies
\* that are empty or JSON, only null, of which no intent_id can be read, is
\* answered 400.
C18_UnusableIdNotFound ==
    [][\A r \in Slots :
        LET body == reqs[r].body
            parsed == JSONparse(body)
            id == Get(parsed.value.props, "intent_id")
        IN  Ends(r)
                => /\ (\/ body = <<>>
                       \/ /\ ~parsed.threw
                          /\ parsed.value.type # "null"
                          /\ (Falsy(id) \/ ~MapHas(intents, id)))
                        => /\ reqs'[r].res = [status |-> 404,
                                              data |-> [error |-> "Intent not found"]]
                           /\ intents' = intents
                           /\ orders' = orders
                   /\ ((body = <<>> \/ ~parsed.threw) /\ reqs'[r].res.status = 400)
                        => parsed.value.type = "null"]_vars

\* a /confirm with an empty body was answered 404 while an intent waits
C18_Witness ==
    \E r \in Slots :
        /\ reqs[r].st = "answered"
        /\ reqs[r].route = "/confirm"
        /\ reqs[r].body = <<>>
        /\ reqs[r].res.status = 404
        /\ \E i \in DOMAIN intents : ~intents[i].confirmed

\* C19: every intent with confirmed = true has a plantingId that is a key
\* of orders, and no 'end' listener has thrown on a missing intent or order
C19_ConfirmedHasOrder ==
    /\ \A i \in DOMAIN intents :
            intents[i].confirmed => MapHas(orders, Get(intents[i], "plantingId"))
    /\ \A r \in Slots : reqs[r].st # "threw"

\* two connections sent the same intent to /confirm and both were answered
\* 200 with one planting id: the later 'end' found the intent confirmed and
\* looked its order up
C19_Witness ==
    \E r, q \in Slots :
        /\ r # q
        /\ reqs[r].st = "answered" /\ reqs[q].st = "answered"
        /\ reqs[r].route = "/confirm" /\ reqs[q].route = "/confirm"
        /\ reqs[r].body = reqs[q].body
        /\ reqs[r].res.status = 200 /\ reqs[q].res.status = 200
        /\ reqs[r].res.data.planting_id = reqs[q].res.data.planting_id
        /\ MapHas(orders, reqs[r].res.data.planting_id)

\* the request lines that connection r's request, received in this step, may
\* have had: those with its method, its pathname and, on /proofs, its
\* planting_id
LinesOf(r) ==
    {line \in RequestLines :
        /\ line[1] = reqs'[r].method
        /\ pathnameOf(line[2]) = reqs'[r].pathname
        /\ reqs'[r].route = "/proofs"
                => parsedUrlQuery(line[2], "planting_id") = reqs'[r].query}

\* C20: whatever request the handler of jungle404_server.js receives, the
\* handler of apiServer, given the same request with the same Maps, the same
\* clock and the same random bytes, sends the same response, leaves the same
\* Maps and leaves the same requests to the 'end' listener.
C20_SameAsDemo ==
    [][\A r \in Slots :
        (Free(r) /\ reqs'[r] # reqs[r])
            => \A line \in LinesOf(r) :
                \E k \in RandomDraws :
                    LET demo == apiServer(line[1], line[2], reqs'[r].ip, k)
                    IN  /\ demo.res = reqs'[r].res
                        /\ demo.intents = intents'
                        /\ demo.orders = orders'
                        /\ demo.reading = (reqs'[r].st = "reading")]_vars

\* C20 for the request lines with a path without dot segments and with no
\* key of the query twice
C20_SameAsDemoOnPlainLines ==
    [][\A r \in Slots :
        (Free(r) /\ reqs'[r] # reqs[r])
            => \A line \in LinesOf(r) :
                (/\ removeDotSegments(line[2].path, <<>>) = line[2].path
                 /\ Len(valuesOf(line[2].query, "planting_id")) <= 1)
                    => \E k \in RandomDraws :
                        LET demo == apiServer(line[1], line[2], reqs'[r].ip, k)
                        IN  /\ demo.res = reqs'[r].res
                            /\ demo.intents = intents'
                            /\ demo.orders = orders'
                            /\ demo.reading = (reqs'[r].st = "reading")]_vars

====
